---- MODULE Spec2Model ----
(***************************************************************************)
(* srt-reblocker: the timecode value classes (src/src/timecode.py), the    *)
(* SRT parser, the greedy block merger and the pipeline of main            *)
(* (src/main.py).                                                          *)
(*                                                                         *)
(* Text is modelled as a sequence of one-character strings, so that        *)
(* formatting and parsing are computed digit by digit.  A raised           *)
(* ValueError is a record [error |-> "ValueError", msg |-> ...].           *)
(***************************************************************************)
EXTENDS Integers, Sequences, FiniteSets

VARIABLES
    raw_blocks,      \* read_srt: the chunks of the file, each a sequence of lines
    ri,              \* read_srt: number of chunks the for loop has consumed
    arg_minutes,     \* main: args.block_length
    block_length,    \* main: Timecode(minutes = args.block_length)
    blocks,          \* the list read_srt builds and rebuild_blocks pops from
    number_original, \* main: len(blocks) before merging
    parsed_blocks,   \* the list as read_srt returned it (kept for comparison)
    this_block,      \* rebuild_blocks: the accumulator
    current_length,  \* rebuild_blocks: this_block.end - this_block.begin
    new_blocks,      \* rebuild_blocks: the output list
    pops,            \* number of blocks.pop(0) calls made so far
    written,         \* write_srt: the lines written to the output file
    error,           \* main: the exception the except clause caught
    pc,              \* position in main
    tcA,             \* timecode operations: the receiver
    tcB,             \* timecode operations: the other operand
    tcStr,           \* timecode operations: the string to_string produced
    tcOp,            \* timecode operations: the operation applied
    tcOut            \* timecode operations: its result

vars == <<raw_blocks, ri, arg_minutes, block_length, blocks, number_original,
          parsed_blocks, this_block, current_length, new_blocks, pops, written,
          error, pc, tcA, tcB, tcStr, tcOp, tcOut>>

pipeVars == <<raw_blocks, ri, arg_minutes, block_length, blocks, number_original,
              parsed_blocks, this_block, current_length, new_blocks, pops,
              written, error, pc>>

tcVars == <<tcA, tcB, tcStr, tcOp, tcOut>>

(***************************************************************************)
(* Bounds of the model.                                                    *)
(***************************************************************************)
MaxBlocks == 3      \* chunks in the input file
MaxMinutes == 2     \* args.block_length ranges over 0..MaxMinutes
MaxHours == 100     \* the hours field ranges over {0, MaxHours - 1, MaxHours}
MaxFps == 25        \* fps ranges over {MaxFps - 1, MaxFps}

(***************************************************************************)
(* Errors and text.                                                        *)
(***************************************************************************)
ValueError(msg) == [error |-> "ValueError", msg |-> msg]

IsError(x) == "error" \in DOMAIN x

NoValue == [none |-> TRUE]

Digits == <<"0", "1", "2", "3", "4", "5", "6", "7", "8", "9">>

IsDigit(c) == \E d \in 1..10 : Digits[d] = c

DigitValue(c) == (CHOOSE d \in 1..10 : Digits[d] = c) - 1

IsSpace(c) == c = " "

AllDigits(s) == \A i \in 1..Len(s) : IsDigit(s[i])

AllSpaces(s) == \A i \in 1..Len(s) : IsSpace(s[i])

\* int() of a string of decimal digits
RECURSIVE DigitsToInt(_)
DigitsToInt(s) ==
    IF Len(s) = 0 THEN 0
    ELSE 10 * DigitsToInt(SubSeq(s, 1, Len(s) - 1)) + DigitValue(s[Len(s)])

\* str() of a non-negative integer
RECURSIVE IntToStr(_)
IntToStr(n) ==
    IF n < 10 THEN <<Digits[n + 1]>>
    ELSE IntToStr(n \div 10) \o <<Digits[(n % 10) + 1]>>

\* format(n, "0<w>d"): zero-padded to at least w characters, never truncated
RECURSIVE ZeroPad(_, _)
ZeroPad(s, w) == IF Len(s) >= w THEN s ELSE ZeroPad(<<"0">> \o s, w)

Fmt(n, w) == ZeroPad(IntToStr(n), w)

\* str.strip() over the model's whitespace
RECURSIVE LStrip(_)
LStrip(s) == IF Len(s) > 0 /\ IsSpace(s[1]) THEN LStrip(Tail(s)) ELSE s

RECURSIVE RStrip(_)
RStrip(s) ==
    IF Len(s) > 0 /\ IsSpace(s[Len(s)]) THEN RStrip(SubSeq(s, 1, Len(s) - 1)) ELSE s

Strip(s) == LStrip(RStrip(s))

(***************************************************************************)
(* DecimalTimecode                                                         *)
(***************************************************************************)
MsPerSecond == 1000
SecondsPerMinute == 60
MinutesPerHour == 60
HalfSecondMs == 500

\* __post_init__: the field validation
Decimal_valid(h, m, s, ms) ==
    /\ ~(h < 0)
    /\ 0 <= m /\ m < 60
    /\ 0 <= s /\ s < 60
    /\ 0 <= ms /\ ms < 1000

\* the dataclass constructor followed by __post_init__
DecimalTimecode(h, m, s, ms) ==
    IF Decimal_valid(h, m, s, ms)
    THEN [hours |-> h, minutes |-> m, seconds |-> s, milliseconds |-> ms]
    ELSE ValueError("field out of range")

Decimal_to_units(t) ==
    t.milliseconds + t.seconds * 1000 + t.minutes * 60000 + t.hours * 3600000

Decimal_from_units(total_ms) ==
    IF total_ms < 0 THEN ValueError("negative total")
    ELSE LET milliseconds == total_ms % MsPerSecond
             total_seconds == total_ms \div MsPerSecond
             seconds == total_seconds % SecondsPerMinute
             total_minutes == total_seconds \div SecondsPerMinute
             minutes == total_minutes % MinutesPerHour
             hours == total_minutes \div MinutesPerHour
         IN  DecimalTimecode(hours, minutes, seconds, milliseconds)

\* TIMECODE_PATTERN  ^(\d{2}):(\d{2}):(\d{2}),(\d{3})$
Decimal_pattern(s) ==
    /\ Len(s) = 12
    /\ \A i \in {1, 2, 4, 5, 7, 8, 10, 11, 12} : IsDigit(s[i])
    /\ s[3] = ":" /\ s[6] = ":" /\ s[9] = ","

Decimal_from_string(tc_string) ==
    IF Len(tc_string) = 0 THEN ValueError("invalid timecode string")
    ELSE LET s == Strip(tc_string)
         IN  IF ~Decimal_pattern(s) THEN ValueError("invalid timecode format")
             ELSE DecimalTimecode(DigitsToInt(SubSeq(s, 1, 2)),
                                  DigitsToInt(SubSeq(s, 4, 5)),
                                  DigitsToInt(SubSeq(s, 7, 8)),
                                  DigitsToInt(SubSeq(s, 10, 12)))

Decimal_to_string(t) ==
    Fmt(t.hours, 2) \o <<":">> \o Fmt(t.minutes, 2) \o <<":">>
        \o Fmt(t.seconds, 2) \o <<",">> \o Fmt(t.milliseconds, 3)

\* TimecodeBase.__sub__
Decimal_sub(a, b) ==
    LET total == Decimal_to_units(a) - Decimal_to_units(b)
    IN  IF total < 0 THEN ValueError("negative timecode result") ELSE Decimal_from_units(total)

\* TimecodeBase.__lt__ and the other orderings, by operator name
Base_compare(op, ua, ub) ==
    CASE op = "lt" -> ua < ub
      [] op = "le" -> ua <= ub
      [] op = "gt" -> ua > ub
      [] op = "ge" -> ua >= ub

Decimal_lt(a, b) == Base_compare("lt", Decimal_to_units(a), Decimal_to_units(b))

\* the __eq__ that @dataclass generates for DecimalTimecode (the class body
\* defines none): field by field
Decimal_eq(a, b) ==
    /\ a.hours = b.hours
    /\ a.minutes = b.minutes
    /\ a.seconds = b.seconds
    /\ a.milliseconds = b.milliseconds

Decimal_round_to_seconds(t) ==
    IF t.milliseconds >= HalfSecondMs
    THEN Decimal_from_units(Decimal_to_units(t) + (MsPerSecond - t.milliseconds))
    ELSE DecimalTimecode(t.hours, t.minutes, t.seconds, 0)

(***************************************************************************)
(* FrameTimecode                                                           *)
(***************************************************************************)
Frame_valid(h, m, s, f, fps) ==
    /\ ~(h < 0)
    /\ 0 <= m /\ m < 60
    /\ 0 <= s /\ s < 60
    /\ 0 <= f /\ f < fps

FrameTimecode(h, m, s, f, fps) ==
    IF Frame_valid(h, m, s, f, fps)
    THEN [hours |-> h, minutes |-> m, seconds |-> s, frames |-> f, fps |-> fps]
    ELSE ValueError("field out of range")

Frame_to_frames(t) ==
    t.frames + t.seconds * t.fps + t.minutes * 60 * t.fps + t.hours * 3600 * t.fps

Frame_from_frames(total_frames, fps) ==
    IF total_frames < 0 THEN ValueError("negative total")
    ELSE LET frames == total_frames % fps
             total_seconds == total_frames \div fps
             seconds == total_seconds % SecondsPerMinute
             total_minutes == total_seconds \div SecondsPerMinute
             minutes == total_minutes % MinutesPerHour
             hours == total_minutes \div MinutesPerHour
         IN  FrameTimecode(hours, minutes, seconds, frames, fps)

\* TIMECODE_PATTERN  ^(\d{2}):(\d{2}):(\d{2}):(\d{2})$
Frame_pattern(s) ==
    /\ Len(s) = 11
    /\ \A i \in {1, 2, 4, 5, 7, 8, 10, 11} : IsDigit(s[i])
    /\ s[3] = ":" /\ s[6] = ":" /\ s[9] = ":"

Frame_from_string(tc_string, fps) ==
    IF Len(tc_string) = 0 THEN ValueError("invalid timecode string")
    ELSE LET s == Strip(tc_string)
         IN  IF ~Frame_pattern(s) THEN ValueError("invalid timecode format")
             ELSE LET parsed == DigitsToInt(SubSeq(s, 10, 11))
                      frames == IF parsed >= fps THEN 0 ELSE parsed
                  IN  FrameTimecode(DigitsToInt(SubSeq(s, 1, 2)),
                                    DigitsToInt(SubSeq(s, 4, 5)),
                                    DigitsToInt(SubSeq(s, 7, 8)),
                                    frames, fps)

Frame_to_string(t) ==
    Fmt(t.hours, 2) \o <<":">> \o Fmt(t.minutes, 2) \o <<":">>
        \o Fmt(t.seconds, 2) \o <<":">> \o Fmt(t.frames, 2)

\* FrameTimecode.__eq__
Frame_eq(a, b) == Frame_to_frames(a) = Frame_to_frames(b) /\ a.fps = b.fps

\* FrameTimecode inherits __lt__, __le__, __gt__, __ge__ from TimecodeBase:
\* to_units() of both sides, whatever their fps
Frame_compare(op, a, b) ==
    IF op = "eq" THEN Frame_eq(a, b)
    ELSE Base_compare(op, Frame_to_frames(a), Frame_to_frames(b))

Frame_round_up_floor(t) == t.frames >= t.fps \div 2

\* self.frames >= self.fps / 2 is a float comparison: 2 * frames >= fps
Frame_round_up(t) == 2 * t.frames >= t.fps

Frame_round_to_seconds(t) ==
    IF Frame_round_up(t)
    THEN Frame_from_frames(Frame_to_frames(t) + (t.fps - t.frames), t.fps)
    ELSE FrameTimecode(t.hours, t.minutes, t.seconds, 0, t.fps)

(***************************************************************************)
(* read_srt                                                                *)
(***************************************************************************)
Arrow == <<"-", "-", ">">>

\* TIMECODE_LINE_PATTERN
\*   ^(\d{2}:\d{2}:\d{2},\d{3})\s*-->\s*(\d{2}:\d{2}:\d{2},\d{3})$
\* both groups have a fixed width of 12, so group 1 is the first 12 characters,
\* group 2 the last 12, and what lies between must be \s*-->\s*
TimecodeLineMatch(l) ==
    /\ Len(l) >= 27
    /\ Decimal_pattern(SubSeq(l, 1, 12))
    /\ Decimal_pattern(SubSeq(l, Len(l) - 11, Len(l)))
    /\ LET mid == SubSeq(l, 13, Len(l) - 12)
       IN  \E k \in 0..(Len(mid) - 3) :
               /\ AllSpaces(SubSeq(mid, 1, k))
               /\ SubSeq(mid, k + 1, k + 3) = Arrow
               /\ AllSpaces(SubSeq(mid, k + 4, Len(mid)))

\* int(s) for a stripped string: an optional sign, then decimal digits
ParseInt(s) ==
    LET signed == Len(s) > 0 /\ s[1] \in {"+", "-"}
        body == IF signed THEN Tail(s) ELSE s
    IN  IF Len(body) = 0 \/ ~AllDigits(body) THEN ValueError("invalid literal for int()")
        ELSE [value |-> IF signed /\ s[1] = "-" THEN 0 - DigitsToInt(body)
                        ELSE DigitsToInt(body)]

\* " ".join(lines)
RECURSIVE JoinSpace(_)
JoinSpace(lines) ==
    IF Len(lines) = 0 THEN <<>>
    ELSE IF Len(lines) = 1 THEN lines[1]
    ELSE lines[1] \o <<" ">> \o JoinSpace(Tail(lines))

\* text.replace("...", ""): leftmost non-overlapping occurrences, one pass
RECURSIVE remove_dots(_)
remove_dots(text) ==
    IF Len(text) < 3 THEN text
    ELSE IF SubSeq(text, 1, 3) = <<".", ".", ".">>
         THEN remove_dots(SubSeq(text, 4, Len(text)))
         ELSE <<text[1]>> \o remove_dots(Tail(text))

SrtBlock(index, begin, end, text) ==
    [index |-> index, begin |-> begin, end |-> end, text |-> text]

Skipped == [skipped |-> TRUE]

\* one iteration of the for loop of read_srt over a chunk's lines: Skipped
\* (continue), a ValueError (raised), or the SrtBlock appended
ParseChunk(lines) ==
    IF Len(lines) < 3 THEN Skipped
    ELSE LET index == ParseInt(Strip(lines[1]))
             l2 == Strip(lines[2])
         IN  IF IsError(index) THEN index
             ELSE IF ~TimecodeLineMatch(l2) THEN ValueError("invalid timecode line")
             ELSE LET begin == Decimal_from_string(SubSeq(l2, 1, 12))
                  IN  IF IsError(begin) THEN begin
                      ELSE LET end == Decimal_from_string(SubSeq(l2, Len(l2) - 11, Len(l2)))
                           IN  IF IsError(end) THEN end
                               ELSE SrtBlock(index.value, begin, end,
                                             remove_dots(JoinSpace(SubSeq(lines, 3, Len(lines)))))

(***************************************************************************)
(* write_srt                                                               *)
(***************************************************************************)
\* str(index)
IndexStr(index) == IF index < 0 THEN <<"-">> \o IntToStr(0 - index) ELSE IntToStr(index)

\* the four lines write_srt writes for one block
BlockLines(block) ==
    << IndexStr(block.index),
       Decimal_to_string(block.begin) \o <<" ">> \o Arrow \o <<" ">>
           \o Decimal_to_string(block.end),
       block.text,
       <<>> >>

RECURSIVE write_srt(_)
write_srt(bs) ==
    IF Len(bs) = 0 THEN <<>> ELSE BlockLines(bs[1]) \o write_srt(Tail(bs))

(***************************************************************************)
(* The input files and arguments of the model.                             *)
(***************************************************************************)
Stamp(m, s, ms) == <<"0", "0", ":">> \o Fmt(m, 2) \o <<":">> \o Fmt(s, 2) \o <<",">> \o Fmt(ms, 3)

TcLine(b, e) == b \o <<" ">> \o Arrow \o <<" ">> \o e

Chunks ==
    { << <<"1">>, TcLine(Stamp(0, 0, 0), Stamp(0, 30, 0)), <<"a">> >>,
      << <<"2", " ">>, TcLine(Stamp(0, 30, 0), Stamp(1, 0, 0)), <<"b", ".", ".", ".">> >>,
      << <<"7">>, TcLine(Stamp(1, 0, 0), Stamp(3, 0, 500)), <<"a">>, <<"b">> >>,
      \* zero length, no space around the arrow
      << <<"-", "3">>, Stamp(3, 0, 0) \o Arrow \o Stamp(3, 0, 0), <<"c">> >>,
      \* end before begin
      << <<"3">>, TcLine(Stamp(1, 0, 0), Stamp(0, 30, 0)), <<"a">> >>,
      \* fewer than three lines
      << <<"4">>, TcLine(Stamp(0, 0, 0), Stamp(0, 30, 0)) >>,
      \* the index is no integer
      << <<"x">>, TcLine(Stamp(0, 0, 0), Stamp(0, 30, 0)), <<"a">> >>,
      \* a single-dash arrow
      << <<"5">>, Stamp(0, 0, 0) \o <<" ", "-", ">", " ">> \o Stamp(0, 30, 0), <<"a">> >>,
      \* seconds = 60
      << <<"6">>, TcLine(Stamp(0, 0, 60), Stamp(1, 0, 0)), <<"a">> >> }

RECURSIVE SeqsUpTo(_, _)
SeqsUpTo(S, n) ==
    IF n = 0 THEN {<<>>}
    ELSE LET shorter == SeqsUpTo(S, n - 1)
         IN  shorter \cup {Append(q, x) : q \in shorter, x \in S}

\* re.split on the stripped content: an empty file is one chunk with no lines
Files == {<< <<>> >>} \cup (SeqsUpTo(Chunks, MaxBlocks) \ {<<>>})

(***************************************************************************)
(* main                                                                    *)
(***************************************************************************)
Except_resume(e) == "renumber"

\* the except clause of main: the error is printed and nothing else runs
Except(e) == "failed"

InitPipeline ==
    /\ raw_blocks = <<>>
    /\ arg_minutes = 0
    /\ block_length = NoValue
    /\ ri = 0
    /\ blocks = <<>>
    /\ number_original = 0
    /\ parsed_blocks = <<>>
    /\ this_block = NoValue
    /\ current_length = NoValue
    /\ new_blocks = <<>>
    /\ pops = 0
    /\ written = <<>>
    /\ error = NoValue
    /\ pc = "start"

IdleTimecode ==
    /\ tcA = NoValue
    /\ tcB = NoValue
    /\ tcStr = <<>>
    /\ tcOp = "none"
    /\ tcOut = NoValue

Init == InitPipeline /\ IdleTimecode

\* main: args = parse_args(); block_length = Timecode(minutes = args.block_length)
ParseArgs ==
    /\ pc = "start"
    /\ \E m \in 0..MaxMinutes :
           /\ arg_minutes' = m
           /\ block_length' = DecimalTimecode(0, m, 0, 0)
    /\ pc' = "open"
    /\ UNCHANGED <<raw_blocks, ri, blocks, number_original, parsed_blocks, this_block,
                   current_length, new_blocks, pops, written, error>>
    /\ UNCHANGED tcVars

\* read_srt: the file is read and split into chunks
OpenFile ==
    /\ pc = "open"
    /\ raw_blocks' \in Files
    /\ pc' = "read"
    /\ UNCHANGED <<ri, arg_minutes, block_length, blocks, number_original, parsed_blocks,
                   this_block, current_length, new_blocks, pops, written, error>>
    /\ UNCHANGED tcVars

\* read_srt: one iteration of the for loop
ReadBlock ==
    /\ pc = "read"
    /\ ri < Len(raw_blocks)
    /\ LET res == ParseChunk(raw_blocks[ri + 1])
       IN  /\ ri' = ri + 1
           /\ blocks' = IF IsError(res) \/ res = Skipped THEN blocks ELSE Append(blocks, res)
           /\ error' = IF IsError(res) THEN res ELSE error
           /\ pc' = IF IsError(res) THEN Except(res) ELSE pc
    /\ UNCHANGED <<raw_blocks, arg_minutes, block_length, number_original, parsed_blocks,
                   this_block, current_length, new_blocks, pops, written>>
    /\ UNCHANGED tcVars

\* read_srt returns; main records len(blocks) and calls rebuild_blocks
ReadReturn ==
    /\ pc = "read"
    /\ ri = Len(raw_blocks)
    /\ number_original' = Len(blocks)
    /\ parsed_blocks' = blocks
    /\ pc' = "outer"
    /\ UNCHANGED <<raw_blocks, ri, arg_minutes, block_length, blocks, this_block,
                   current_length, new_blocks, pops, written, error>>
    /\ UNCHANGED tcVars

PopFront_peek(bs) == [item |-> Head(bs), rest |-> bs]

\* blocks.pop(0): the element and the rest
PopFront(bs) == [item |-> Head(bs), rest |-> Tail(bs)]

BelowTarget_swapped(length, target) == Decimal_lt(target, length)

BelowTarget_le(length, target) ==
    Base_compare("le", Decimal_to_units(length), Decimal_to_units(target))

\* the condition of the inner while loop
BelowTarget(length, target) == Decimal_lt(length, target)

Absorb_prepend(this, next) ==
    [this EXCEPT !.text = next.text \o <<" ">> \o this.text, !.end = next.end]

\* the absorption of next_block into this_block
Absorb(this, next) ==
    [this EXCEPT !.text = this.text \o <<" ">> \o next.text, !.end = next.end]

\* rebuild_blocks: the outer loop pops the new accumulator
OuterPop ==
    /\ pc = "outer"
    /\ Len(blocks) > 0
    /\ LET p == PopFront(blocks)
           len == Decimal_sub(p.item.end, p.item.begin)
       IN  /\ this_block' = p.item
           /\ blocks' = p.rest
           /\ pops' = pops + 1
           /\ current_length' = IF IsError(len) THEN current_length ELSE len
           /\ error' = IF IsError(len) THEN len ELSE error
           /\ pc' = IF IsError(len) THEN Except(len) ELSE "inner"
    /\ UNCHANGED <<raw_blocks, ri, arg_minutes, block_length, number_original,
                   parsed_blocks, new_blocks, written>>
    /\ UNCHANGED tcVars

\* rebuild_blocks: one iteration of the inner loop that absorbs the next block
InnerMerge ==
    /\ pc = "inner"
    /\ BelowTarget(current_length, block_length)
    /\ Len(blocks) > 0
    /\ LET p == PopFront(blocks)
           merged == Absorb(this_block, p.item)
           len == Decimal_sub(merged.end, merged.begin)
       IN  /\ this_block' = merged
           /\ blocks' = p.rest
           /\ pops' = pops + 1
           /\ current_length' = IF IsError(len) THEN current_length ELSE len
           /\ error' = IF IsError(len) THEN len ELSE error
           /\ pc' = IF IsError(len) THEN Except(len) ELSE "inner"
    /\ UNCHANGED <<raw_blocks, ri, arg_minutes, block_length, number_original,
                   parsed_blocks, new_blocks, written>>
    /\ UNCHANGED tcVars

\* rebuild_blocks: the inner loop ends (target met, or break on an empty list)
\* and this_block is appended to new_blocks
InnerExit ==
    /\ pc = "inner"
    /\ ~BelowTarget(current_length, block_length) \/ Len(blocks) = 0
    /\ new_blocks' = Append(new_blocks, this_block)
    /\ pc' = "outer"
    /\ UNCHANGED <<raw_blocks, ri, arg_minutes, block_length, blocks, number_original,
                   parsed_blocks, this_block, current_length, pops, written, error>>
    /\ UNCHANGED tcVars

\* rebuild_blocks returns new_blocks
MergeReturn ==
    /\ pc = "outer"
    /\ Len(blocks) = 0
    /\ pc' = "renumber"
    /\ UNCHANGED <<raw_blocks, ri, arg_minutes, block_length, blocks, number_original,
                   parsed_blocks, this_block, current_length, new_blocks, pops, written,
                   error>>
    /\ UNCHANGED tcVars

Renumbered_from_one(bs) == [i \in 1..Len(bs) |-> [bs[i] EXCEPT !.index = i]]

\* for i, block in enumerate(new_blocks): block.index = i
Renumbered(bs) == [i \in 1..Len(bs) |-> [bs[i] EXCEPT !.index = i - 1]]

Renumber ==
    /\ pc = "renumber"
    /\ new_blocks' = Renumbered(new_blocks)
    /\ pc' = "write"
    /\ UNCHANGED <<raw_blocks, ri, arg_minutes, block_length, blocks, number_original,
                   parsed_blocks, this_block, current_length, pops, written, error>>
    /\ UNCHANGED tcVars

WriteSrt ==
    /\ pc = "write"
    /\ written' = write_srt(new_blocks)
    /\ pc' = "done"
    /\ UNCHANGED <<raw_blocks, ri, arg_minutes, block_length, blocks, number_original,
                   parsed_blocks, this_block, current_length, new_blocks, pops, error>>
    /\ UNCHANGED tcVars

Next ==
    \/ ParseArgs
    \/ OpenFile
    \/ ReadBlock
    \/ ReadReturn
    \/ OuterPop
    \/ InnerMerge
    \/ InnerExit
    \/ MergeReturn
    \/ Renumber
    \/ WriteSrt

Spec == Init /\ [][Next]_vars

\* a step of rebuild_blocks
MergeStep == OuterPop \/ InnerMerge \/ InnerExit \/ MergeReturn

\* rebuild_blocks runs in a single thread without suspension: once called, its
\* next step is eventually taken
FairSpec == Spec /\ WF_vars(MergeStep)

(***************************************************************************)
(* The timecode operations on their own: a validly constructed timecode    *)
(* is formatted and parsed back, compared with another one, or rounded.    *)
(***************************************************************************)
DefaultFps == 25

IsFrame(t) == "fps" \in DOMAIN t

to_units(t) == IF IsFrame(t) THEN Frame_to_frames(t) ELSE Decimal_to_units(t)

to_string(t) == IF IsFrame(t) THEN Frame_to_string(t) ELSE Decimal_to_string(t)

round_to_seconds(t) ==
    IF IsFrame(t) THEN Frame_round_to_seconds(t) ELSE Decimal_round_to_seconds(t)

\* a == b, a < b, a <= b, a > b, a >= b for two timecodes of one class
Compare(op, a, b) ==
    IF IsFrame(a) THEN [result |-> Frame_compare(op, a, b)]
    ELSE IF op = "eq" THEN [result |-> Decimal_eq(a, b)]
    ELSE [result |-> Base_compare(op, Decimal_to_units(a), Decimal_to_units(b))]

CompareOps == {"eq", "lt", "le", "gt", "ge"}

HoursValues == {-1, 0, MaxHours - 1, MaxHours}
MinuteValues == {0, 59, 60}
SecondValues == {-1, 0, 59}
MsValues == {0, 1, 499, 500, 501, 999, 1000}
FpsValues == {MaxFps - 1, MaxFps}
FrameValues(fps) == {0, 1, (fps - 1) \div 2, (fps + 1) \div 2, fps - 1, fps}

\* the values the constructors accept, among the field values above
DecimalTimecodes ==
    { t \in { DecimalTimecode(h, m, s, ms) :
                  h \in HoursValues, m \in MinuteValues, s \in SecondValues,
                  ms \in MsValues } : ~IsError(t) }

FrameTimecodesAt(fps) ==
    { t \in { FrameTimecode(h, m, s, f, fps) :
                  h \in HoursValues, m \in MinuteValues, s \in SecondValues,
                  f \in FrameValues(fps) } : ~IsError(t) }

FrameTimecodes == UNION { FrameTimecodesAt(fps) : fps \in FpsValues }

Timecodes == DecimalTimecodes \cup FrameTimecodes

\* the second operands of a comparison
Operands(a) ==
    { b \in (IF IsFrame(a) THEN FrameTimecodes ELSE DecimalTimecodes) :
          b.hours = 0 \/ b.hours = a.hours }

IdlePipeline ==
    /\ raw_blocks = <<>>
    /\ arg_minutes = 0
    /\ block_length = NoValue
    /\ ri = 0
    /\ blocks = <<>>
    /\ number_original = 0
    /\ parsed_blocks = <<>>
    /\ this_block = NoValue
    /\ current_length = NoValue
    /\ new_blocks = <<>>
    /\ pops = 0
    /\ written = <<>>
    /\ error = NoValue
    /\ pc = "idle"

InitTimecode ==
    /\ IdlePipeline
    /\ tcA \in Timecodes
    /\ tcB = NoValue
    /\ tcStr = <<>>
    /\ tcOp = "new"
    /\ tcOut = NoValue

CallToString ==
    /\ tcOp = "new"
    /\ tcStr' = to_string(tcA)
    /\ tcOp' = "to_string"
    /\ UNCHANGED <<tcA, tcB, tcOut>>
    /\ UNCHANGED pipeVars

\* DecimalTimecode.from_string(s)
FromStringDecimal ==
    /\ tcOp = "to_string"
    /\ ~IsFrame(tcA)
    /\ tcOut' = Decimal_from_string(tcStr)
    /\ tcOp' = "from_string"
    /\ UNCHANGED <<tcA, tcB, tcStr>>
    /\ UNCHANGED pipeVars

\* FrameTimecode.from_string(s) with the default fps, or FrameTimecode.from_string(s, fps)
FromStringFrame ==
    /\ tcOp = "to_string"
    /\ IsFrame(tcA)
    /\ \E fps \in {DefaultFps, tcA.fps} :
           /\ tcB' = [fps_argument |-> fps]
           /\ tcOut' = Frame_from_string(tcStr, fps)
    /\ tcOp' = "from_string"
    /\ UNCHANGED <<tcA, tcStr>>
    /\ UNCHANGED pipeVars

CompareWith ==
    /\ tcOp = "new"
    /\ \E op \in CompareOps, b \in Operands(tcA) :
           /\ tcB' = b
           /\ tcOp' = op
           /\ tcOut' = Compare(op, tcA, b)
    /\ UNCHANGED <<tcA, tcStr>>
    /\ UNCHANGED pipeVars

RoundToSeconds ==
    /\ tcOp = "new"
    /\ tcOut' = round_to_seconds(tcA)
    /\ tcOp' = "round_to_seconds"
    /\ UNCHANGED <<tcA, tcB, tcStr>>
    /\ UNCHANGED pipeVars

NextTimecode ==
    \/ CallToString
    \/ FromStringDecimal
    \/ FromStringFrame
    \/ CompareWith
    \/ RoundToSeconds

TimecodeSpec == InitTimecode /\ [][NextTimecode]_vars

(***************************************************************************)
(* Properties of the pipeline (specification Spec, FairSpec).              *)
(***************************************************************************)
\* rebuild_blocks has returned
Returned == pc \in {"renumber", "write", "done"}

Duration(block) == Decimal_to_units(block.end) - Decimal_to_units(block.begin)

Target == IF block_length = NoValue THEN 0 ELSE Decimal_to_units(block_length)

\* C1: when rebuild_blocks returns, every cue of its output except possibly
\* the last one has end - begin >= target_duration.
MergeDurationInvariant ==
    Returned =>
        \A i \in 1..(Len(new_blocks) - 1) : Duration(new_blocks[i]) >= Target

\* C1 witness: a returned output of several cues, one of them merged, whose
\* last cue is shorter than a non-zero target
MergeDurationWitness ==
    /\ Returned
    /\ Target > 0
    /\ Len(new_blocks) >= 2
    /\ Len(new_blocks) < Len(parsed_blocks)
    /\ Duration(new_blocks[Len(new_blocks)]) < Target

\* C2: after merging and renumbering there are no more output cues than
\* input cues, and output cue number i (from 0) carries the index i, whatever
\* the indices of the input were.
MergeCountAndNumbering ==
    pc \in {"write", "done"} =>
        /\ Len(new_blocks) <= Len(parsed_blocks)
        /\ \A i \in 1..Len(new_blocks) : new_blocks[i].index = i - 1

\* C2 witness: renumbered output of two or more cues whose input indices were
\* not the positions
MergeCountWitness ==
    /\ pc = "write"
    /\ Len(new_blocks) >= 2
    /\ Len(new_blocks) < Len(parsed_blocks)
    /\ parsed_blocks[Len(parsed_blocks)].index > Len(parsed_blocks)

\* C5 (as claimed): every cue in the pipeline has end >= begin: the cues the
\* parser returned, the accumulator, and the cues of the merger's output.
CueEndNotBeforeBegin ==
    /\ \A i \in 1..Len(blocks) : Duration(blocks[i]) >= 0
    /\ \A i \in 1..Len(new_blocks) : Duration(new_blocks[i]) >= 0
    /\ this_block # NoValue => Duration(this_block) >= 0

\* C6: an error raised while parsing or merging ends the run with nothing
\* written; the write step is reached only after the whole input has been
\* parsed and merged without error.
NoPartialOutputOnFailure ==
    /\ error # NoValue => pc = "failed" /\ written = <<>>
    /\ pc = "failed" => written = <<>>
    /\ pc \in {"write", "done"} =>
           error = NoValue /\ ri = Len(raw_blocks) /\ Len(blocks) = 0
    /\ written # <<>> => pc = "done"

\* C6 witness: the merger failed on a negative subtraction after it had
\* already produced an output cue
NoPartialOutputWitness ==
    /\ pc = "failed"
    /\ error # NoValue
    /\ error.msg = "negative timecode result"
    /\ Len(new_blocks) > 0
    /\ written = <<>>

\* C8: with a target of zero and input cues with end >= begin the merger
\* merges nothing: the output has the input's length and output cue i has the
\* begin, end and text of input cue i.
ZeroTargetNoMerge ==
    (/\ Returned
     /\ Target = 0
     /\ \A i \in 1..Len(parsed_blocks) : Duration(parsed_blocks[i]) >= 0)
    => /\ Len(new_blocks) = Len(parsed_blocks)
       /\ \A i \in 1..Len(new_blocks) :
              /\ new_blocks[i].begin = parsed_blocks[i].begin
              /\ new_blocks[i].end = parsed_blocks[i].end
              /\ new_blocks[i].text = parsed_blocks[i].text

\* C8 witness: a zero target, several cues, one of zero length before another
ZeroTargetWitness ==
    /\ Returned
    /\ Target = 0
    /\ Len(new_blocks) >= 2
    /\ Duration(new_blocks[1]) = 0

\* a step of the merger that pops removes exactly one cue from the list
PopRemovesOne ==
    (pc \in {"outer", "inner"} /\ pops' # pops) =>
        (pops' = pops + 1 /\ Len(blocks') = Len(blocks) - 1)

\* the inner loop, out of input below the target, emits its block
ShortFinalBlockEmitted ==
    (pc = "inner" /\ Len(blocks) = 0 /\ Duration(this_block) < Target) =>
        (pc' = "outer" /\ new_blocks' = Append(new_blocks, this_block))

\* C9: the merger halts after at most n pops for n input cues: every pop
\* removes exactly one cue, the list is empty when the merger returns, a final
\* block shorter than the target is emitted without error when the input has
\* run out, and the merger always returns or raises.
MergerTerminates ==
    /\ [](pc \in {"outer", "inner", "renumber"} =>
              pops + Len(blocks) = Len(parsed_blocks))
    /\ [](pops <= Len(parsed_blocks))
    /\ [](pc = "renumber" => Len(blocks) = 0 /\ pops = Len(parsed_blocks))
    /\ [][PopRemovesOne]_vars
    /\ [][ShortFinalBlockEmitted]_vars
    /\ ((pc = "outer") ~> (pc \in {"renumber", "failed"}))

\* C9 witness: the merger has returned after popping all of three cues, its
\* last block shorter than the target
MergerTerminatesWitness ==
    /\ pc = "renumber"
    /\ pops = Len(parsed_blocks)
    /\ pops >= 3
    /\ Duration(new_blocks[Len(new_blocks)]) < Target

\* the cue that stands for the first k cues of inp
RunOf(inp, k) ==
    [begin |-> inp[1].begin,
     end |-> inp[k].end,
     text |-> JoinSpace([i \in 1..k |-> inp[i].text])]

\* out corresponds to a split of inp into non-empty contiguous runs, in order
RECURSIVE Partitioned(_, _)
Partitioned(out, inp) ==
    IF Len(out) = 0 THEN Len(inp) = 0
    ELSE \E k \in 1..Len(inp) :
             /\ out[1].begin = RunOf(inp, k).begin
             /\ out[1].end = RunOf(inp, k).end
             /\ out[1].text = RunOf(inp, k).text
             /\ Partitioned(Tail(out), SubSeq(inp, k + 1, Len(inp)))

\* C10: when rebuild_blocks returns, its output is a partition of the input
\* cues into non-empty contiguous runs in input order; each output cue has the
\* begin of its run's first cue, the end of its run's last cue and the run's
\* texts joined by single spaces.
MergeIsOrderedPartition == Returned => Partitioned(new_blocks, parsed_blocks)

\* C10 witness: three cues merged into two
MergePartitionWitness ==
    /\ Returned
    /\ Len(parsed_blocks) = 3
    /\ Len(new_blocks) = 2
    /\ new_blocks[1].text # parsed_blocks[1].text

(***************************************************************************)
(* Properties of the timecode operations (specification TimecodeSpec).     *)
(***************************************************************************)
UnitsPerSecond(t) == IF IsFrame(t) THEN t.fps ELSE MsPerSecond

SubSecond(t) == IF IsFrame(t) THEN t.frames ELSE t.milliseconds

\* C3 (as claimed): for a validly constructed timecode t of either class,
\* from_string(t.to_string()) succeeds and equals t (the frame class being
\* given t's own fps).
StringRoundTrip ==
    (tcOp = "from_string" /\ (IsFrame(tcA) => tcB.fps_argument = tcA.fps))
    => /\ ~IsError(tcOut)
       /\ Compare("eq", tcOut, tcA).result

\* C4 (as claimed): a comparison of two frame timecodes with different fps
\* fails with an error; with equal fps it agrees with the comparison of
\* to_units().
FrameCompareMismatchFails ==
    (tcOp \in CompareOps /\ IsFrame(tcA)) =>
        IF tcA.fps # tcB.fps THEN IsError(tcOut)
        ELSE /\ ~IsError(tcOut)
             /\ tcOut.result =
                    (IF tcOp = "eq" THEN to_units(tcA) = to_units(tcB)
                     ELSE Base_compare(tcOp, to_units(tcA), to_units(tcB)))

\* C7: round_to_seconds returns a timecode of the same class with sub-second
\* component 0 whose unit count is t's rounded up to the next whole second if
\* twice the sub-second component is at least the units per second, and
\* rounded down to the current whole second otherwise.
RoundToSecondsNearest ==
    tcOp = "round_to_seconds" =>
        LET ups == UnitsPerSecond(tcA)
            whole == to_units(tcA) \div ups
        IN  /\ ~IsError(tcOut)
            /\ IsFrame(tcOut) = IsFrame(tcA)
            /\ IsFrame(tcA) => tcOut.fps = tcA.fps
            /\ SubSecond(tcOut) = 0
            /\ tcOut.seconds \in 0..59 /\ tcOut.minutes \in 0..59
            /\ to_units(tcOut) =
                   (IF 2 * SubSecond(tcA) >= ups THEN (whole + 1) * ups ELSE whole * ups)

\* C7 witness: a frame timecode of odd fps at 59:59 whose frames round up, the
\* carry reaching the hours
RoundToSecondsWitness ==
    /\ tcOp = "round_to_seconds"
    /\ IsFrame(tcA)
    /\ tcA.fps % 2 = 1
    /\ tcA.minutes = 59 /\ tcA.seconds = 59
    /\ tcA.frames = (tcA.fps + 1) \div 2
    /\ ~IsError(tcOut)
    /\ tcOut.hours = tcA.hours + 1

====
